---- MODULE Spec2Model ----
(***************************************************************************)
(* COVID-19 health data project: the batch importer (import_data.py), the  *)
(* dataset validator (validate_datasets.py) and the synthetic generators   *)
(* (generate_datasets.py), each as a state machine of its own:             *)
(*   SpecImport    runs of import_data.main against one MySQL database     *)
(*   SpecValidate  one run of validate_datasets.main                       *)
(*   SpecGen       one call of generate_datasets.generate_bundle           *)
(* The variables of the two machines a specification does not run keep     *)
(* their idle values.                                                      *)
(***************************************************************************)
EXTENDS Integers, Sequences, FiniteSets, TLC

VARIABLES
    \* ---- import_data.py ----
    nrows,          \* number of data rows of every CSV file (len(df))
    missing,        \* tables whose CSV file is absent from csv_dir
    db,             \* committed rows of each destination relation
    pending,        \* rows of the connection's open transaction, per relation
    args,           \* parsed command line: reset, batch_size, tables
    pc,             \* position of main: idle, loop, batch, commit, verify, exited
    idx,            \* position of main's loop over tables (1-based)
    batch_i,        \* import_csv_to_table: i, the offset of the current batch
    total_inserted, \* import_csv_to_table: total_inserted
    success_count,  \* main: success_count
    results,        \* what import_csv_to_table returned, call by call, this run
    last,           \* the last call: table, rows on entry, return value, finished
    base,           \* rows each relation held when this run began loading into it
    started,        \* relations this run began loading into
    okImports,      \* successful imports of each table, over all runs
    exit,           \* how the run ended: none, 0, 1, killed
    report,         \* what main printed last: none, missing_files, connect_error,
                    \* all_ok, some_failed
    runs,           \* runs of main started so far
    faults,         \* destination errors, vanished files and kills so far
    \* ---- validate_datasets.py ----
    vpc,            \* position of validate main: idle, csv, db, done
    vidx,           \* position in CSV_FILES.items()
    check_db,       \* args.check_db
    vdb,            \* row count of each destination relation
    df,             \* the file read last (see Files)
    dupes,          \* validate_csvs: dupes of the file read last
    csv_ok,         \* validate_csvs: success
    db_ok,          \* validate_database: success
    connected,      \* mysql.connector.connect: none, yes, no
    csvLog,         \* per table read, whether its file met the three conditions
    dbLog,          \* the relations validate_database counted, in order
    vexit,          \* return value of validate main: none, 0, 1
    \* ---- generate_datasets.py ----
    gpc,            \* position of generate_bundle
    cfg,            \* start, end (day numbers), countries, states, seed
    rng,            \* state of the seeded random.Random
    dates,          \* generate_bundle: dates
    vax_dates,      \* build_vaccination_data: vax_dates
    gidx,           \* position of the builder's outer loop (1-based)
    gjdx,           \* position of the builder's inner loop (1-based)
    gbase,          \* build_covid_cases: base_cases of the current country
    gacc,           \* the builder's running sums (cumulative_*)
    grecords,       \* the builder's records
    bundle,         \* the tables built so far
    grun,           \* number of the call of generate_bundle, from 1
    first_run       \* the tables and the rng state the first call ended with

impVars == <<nrows, missing, db, pending, args, pc, idx, batch_i, total_inserted,
             success_count, results, last, base, started, okImports, exit,
             report, runs, faults>>
valVars == <<vpc, vidx, check_db, vdb, df, dupes, csv_ok, db_ok, connected, csvLog,
             dbLog, vexit>>
genVars ==
    <<gpc, cfg, rng, dates, vax_dates, gidx, gjdx, gbase, gacc, grecords,
      bundle, grun, first_run>>
vars == <<impVars, valVars, genVars>>

(***************************************************************************)
(* Bounds                                                                  *)
(***************************************************************************)
MaxRows == 2        \* rows of a CSV file: 0..MaxRows
MaxBatch == 2       \* --batch-size ranges over 0..MaxBatch
MaxRuns == 2        \* runs of main against the same database
MaxFaults == 1      \* injected destination errors, vanished files and kills
MaxKeyed == 3       \* rows of a validated file that are spelled out (see Files)
MaxDays == 16       \* longest date range the generators are run over
MaxGenRuns == 2     \* calls of generate_bundle with the same arguments

(***************************************************************************)
(* import_data.py                                                          *)
(***************************************************************************)
\* CSV_FILES, in the insertion order of the dict (its keys).
CSV_FILES == <<"covid_cases", "hospital_data", "vaccination_data",
               "country_demographics", "testing_data">>

TableNames == {CSV_FILES[k] : k \in 1..Len(CSV_FILES)}

NoRows == [t \in TableNames |-> <<>>]

\* df of a file: its rows in file order; a row is named by its position.
ReadCsv(n) == [k \in 1..n |-> k]

\* df.iloc[i:i + batch_size] of a file of n rows.
Batch(n, off, b) ==
    LET hi == IF off + b < n THEN off + b ELSE n
    IN  [k \in 1..(hi - off) |-> off + k]

\* First j elements of a sequence.
Take(s, j) == SubSeq(s, 1, j)

\* TRUNCATE TABLE t: MySQL first commits the open transaction (implicit
\* commit of a DDL statement), then empties the relation.
Truncate(d, p, t) == [u \in TableNames |-> IF u = t THEN <<>> ELSE d[u] \o p[u]]

\* connection.commit(): every row of the open transaction becomes persistent.
Commit(d, p) == [u \in TableNames |-> d[u] \o p[u]]

\* OpenRelation with the reset flag ignored: the relation is never cleared.
OpenRelationNeverClears(d, p, t, reset) == [db |-> d, pending |-> p]

\* OpenRelation with the reset flag ignored: the relation is always cleared.
OpenRelationAlwaysClears(d, p, t, reset) ==
    [db |-> Truncate(d, p, t), pending |-> NoRows]

\* import_csv_to_table, lines 74-81: reset clears the relation; append only
\* counts its rows. The result is the database and the open transaction.
OpenRelation(d, p, t, reset) ==
    IF reset THEN [db |-> Truncate(d, p, t), pending |-> NoRows]
             ELSE [db |-> d, pending |-> p]

\* The except clauses of import_csv_to_table: print and return False. The
\* connection is not rolled back, so the open transaction keeps what the
\* failed statement left in it.
ExceptHandler(p) == p

\* tables = args.tables or list(CSV_FILES.keys())
SelectedTables(a) == IF a.tables = <<>> THEN CSV_FILES ELSE a.tables

\* The --tables values the model runs: the default and two subsets.
TableArgs == { <<>>, <<"covid_cases">>, <<"hospital_data", "covid_cases">> }

\* The tables whose file the environment may remove.
Removable == {"covid_cases", "hospital_data"}

CurTable == SelectedTables(args)[idx]

\* The condition of the final report of main.
AllImported(count, a) == count = Len(CSV_FILES)

ImpInit ==
    /\ nrows \in 0..MaxRows
    /\ missing = {}
    /\ \E old \in {<<>>, <<0>>} : db = [t \in TableNames |-> old]
    /\ pending = NoRows
    /\ args \in [reset : BOOLEAN, batch_size : 0..MaxBatch, tables : TableArgs]
    /\ pc = "idle"
    /\ idx = 0
    /\ batch_i = 0
    /\ total_inserted = 0
    /\ success_count = 0
    /\ results = <<>>
    /\ last = [table |-> "none", before |-> <<>>, ret |-> FALSE, done |-> FALSE]
    /\ base = NoRows
    /\ started = {}
    /\ okImports = [t \in TableNames |-> 0]
    /\ exit = "none"
    /\ report = "none"
    /\ runs = 0
    /\ faults = 0

ImpIdle ==
    /\ nrows = 0
    /\ missing = {}
    /\ db = NoRows
    /\ pending = NoRows
    /\ args = [reset |-> FALSE, batch_size |-> 0, tables |-> <<>>]
    /\ pc = "idle"
    /\ idx = 0
    /\ batch_i = 0
    /\ total_inserted = 0
    /\ success_count = 0
    /\ results = <<>>
    /\ last = [table |-> "none", before |-> <<>>, ret |-> FALSE, done |-> FALSE]
    /\ base = NoRows
    /\ started = {}
    /\ okImports = [t \in TableNames |-> 0]
    /\ exit = "none"
    /\ report = "none"
    /\ runs = 0
    /\ faults = 0

\* import_csv_to_table returned ret for table t, which held `before` on entry;
\* main counts a success (line 195) and moves to the next table.
Returned(t, before, ret) ==
    /\ results' = Append(results, ret)
    /\ last' = [table |-> t, before |-> before, ret |-> ret, done |-> TRUE]
    /\ success_count' = IF ret THEN success_count + 1 ELSE success_count
    /\ okImports' = IF ret THEN [okImports EXCEPT ![t] = @ + 1] ELSE okImports
    /\ idx' = idx + 1
    /\ pc' = "loop"

\* A new process: main parses its arguments and checks the CSV files.
NewRun ==
    /\ pc \in {"idle", "exited"}
    /\ runs < MaxRuns
    /\ runs' = runs + 1
    /\ results' = <<>>
    /\ started' = {}
    /\ base' = NoRows
    /\ success_count' = 0
    /\ batch_i' = 0
    /\ total_inserted' = 0
    /\ UNCHANGED <<nrows, missing, db, args, last, okImports>>

MissingFiles(a) ==
    {SelectedTables(a)[k] : k \in 1..Len(SelectedTables(a))} \cap missing

\* main, lines 168-180: a missing CSV file of any selected table ends the run.
MainMissingFiles ==
    /\ NewRun
    /\ MissingFiles(args) # {}
    /\ report' = "missing_files"
    /\ exit' = "1"
    /\ pc' = "exited"
    /\ idx' = 0
    /\ UNCHANGED <<pending, faults>>

\* main, line 182: create_connection succeeded; the loop over tables begins.
MainConnect ==
    /\ NewRun
    /\ MissingFiles(args) = {}
    /\ pending' = NoRows
    /\ report' = "none"
    /\ exit' = "none"
    /\ pc' = "loop"
    /\ idx' = 1
    /\ UNCHANGED faults

\* create_connection, lines 55-57: the connection failed, sys.exit(1).
MainConnectFail ==
    /\ NewRun
    /\ MissingFiles(args) = {}
    /\ faults < MaxFaults
    /\ faults' = faults + 1
    /\ report' = "connect_error"
    /\ exit' = "1"
    /\ pc' = "exited"
    /\ idx' = 0
    /\ UNCHANGED pending

InLoop == pc = "loop" /\ idx <= Len(SelectedTables(args))

\* import_csv_to_table, lines 63-65: the file vanished after main's check.
ImportFileNotFound ==
    /\ InLoop
    /\ CurTable \in missing
    /\ Returned(CurTable, db[CurTable], FALSE)
    /\ UNCHANGED <<nrows, missing, db, pending, args, batch_i, total_inserted, base,
                   started, exit, report, runs, faults>>

\* import_csv_to_table, lines 67-90: read the file, clear or count the
\* relation, then check batch_size (ValueError, caught at line 107).
ImportOpen ==
    /\ InLoop
    /\ CurTable \notin missing
    /\ LET t == CurTable
           o == OpenRelation(db, pending, t, args.reset)
       IN  /\ db' = o.db
           /\ pending' = o.pending
           /\ started' = started \cup {t}
           /\ base' = [base EXCEPT ![t] = o.db[t]]
           /\ IF args.batch_size <= 0
              THEN /\ Returned(t, db[t], FALSE)
                   /\ UNCHANGED <<batch_i, total_inserted>>
              ELSE /\ batch_i' = 0
                   /\ total_inserted' = 0
                   /\ last' = [table |-> t, before |-> db[t], ret |-> FALSE,
                               done |-> FALSE]
                   /\ pc' = "batch"
                   /\ UNCHANGED <<results, success_count, okImports, idx>>
    /\ UNCHANGED <<nrows, missing, args, exit, report, runs, faults>>

\* import_csv_to_table, lines 75/78 and 104-106: the TRUNCATE or the SELECT
\* raises a mysql Error (the relation does not exist, say); return False.
ImportOpenError ==
    /\ InLoop
    /\ CurTable \notin missing
    /\ faults < MaxFaults
    /\ faults' = faults + 1
    /\ pending' = ExceptHandler(pending)
    /\ Returned(CurTable, db[CurTable], FALSE)
    /\ UNCHANGED <<nrows, missing, db, args, batch_i, total_inserted, base, started,
                   exit, report, runs>>

\* import_csv_to_table, lines 92-95: the rows of the batch enter the open
\* transaction.
ExecuteMany ==
    /\ pc = "batch"
    /\ batch_i < nrows
    /\ pending' = [pending EXCEPT
                     ![CurTable] = @ \o Batch(nrows, batch_i, args.batch_size)]
    /\ pc' = "commit"
    /\ UNCHANGED <<nrows, missing, db, args, idx, batch_i, total_inserted,
                   success_count, results, last, base, started, okImports,
                   exit, report, runs, faults>>

\* import_csv_to_table, lines 95 and 104-106: executemany raises after the
\* server applied the first j rows of the batch to the open transaction
\* (j = 0: the statement failed as a whole); return False.
ExecuteManyError ==
    /\ pc = "batch"
    /\ batch_i < nrows
    /\ faults < MaxFaults
    /\ faults' = faults + 1
    /\ \E j \in 0..(Len(Batch(nrows, batch_i, args.batch_size)) - 1) :
          pending' = ExceptHandler([pending EXCEPT
              ![CurTable] = @ \o Take(Batch(nrows, batch_i, args.batch_size), j)])
    /\ Returned(CurTable, last.before, FALSE)
    /\ UNCHANGED <<nrows, missing, db, args, batch_i, total_inserted, base, started,
                   exit, report, runs>>

\* import_csv_to_table, lines 96-98: commit, count, next batch.
CommitBatch ==
    /\ pc = "commit"
    /\ db' = Commit(db, pending)
    /\ pending' = NoRows
    /\ total_inserted' = total_inserted + Len(Batch(nrows, batch_i, args.batch_size))
    /\ batch_i' = batch_i + args.batch_size
    /\ pc' = "batch"
    /\ UNCHANGED <<nrows, missing, args, idx, success_count, results, last,
                   base, started, okImports, exit, report, runs, faults>>

\* import_csv_to_table, lines 100-102, and main, line 195: every batch
\* committed; return True.
ImportReturnTrue ==
    /\ pc = "batch"
    /\ batch_i >= nrows
    /\ Returned(CurTable, last.before, TRUE)
    /\ UNCHANGED <<nrows, missing, db, pending, args, batch_i, total_inserted, base,
                   started, exit, report, runs, faults>>

\* main, lines 197-212: verify_import only reads; connection.close() drops
\* the open transaction; the final report; the process ends with status 0.
MainFinish ==
    /\ pc = "loop"
    /\ idx > Len(SelectedTables(args))
    /\ pending' = NoRows
    /\ report' = IF AllImported(success_count, args) THEN "all_ok" ELSE "some_failed"
    /\ exit' = "0"
    /\ pc' = "exited"
    /\ UNCHANGED <<nrows, missing, db, args, idx, batch_i, total_inserted,
                   success_count, results, last, base, started, okImports,
                   runs, faults>>

\* The process is killed between two steps: the server rolls the open
\* transaction back.
Interrupt ==
    /\ pc \in {"loop", "batch", "commit"}
    /\ faults < MaxFaults
    /\ faults' = faults + 1
    /\ pending' = NoRows
    /\ exit' = "killed"
    /\ pc' = "exited"
    /\ UNCHANGED <<nrows, missing, db, args, idx, batch_i, total_inserted,
                   success_count, results, last, base, started, okImports,
                   report, runs>>

\* The environment removes a CSV file.
RemoveFile ==
    /\ pc \in {"idle", "loop", "exited"}
    /\ faults < MaxFaults
    /\ faults' = faults + 1
    /\ \E t \in Removable \ missing : missing' = missing \cup {t}
    /\ UNCHANGED <<nrows, db, pending, args, pc, idx, batch_i, total_inserted,
                   success_count, results, last, base, started, okImports,
                   exit, report, runs>>

(***************************************************************************)
(* validate_datasets.py                                                    *)
(***************************************************************************)
EXPECTED_ROWS ==
    [covid_cases |-> 35560, hospital_data |-> 17780, vaccination_data |-> 27940,
     country_demographics |-> 20, testing_data |-> 35560]

UNIQUE_KEYS ==
    [covid_cases |-> <<"date", "country">>,
     hospital_data |-> <<"date", "state">>,
     vaccination_data |-> <<"date", "country">>,
     testing_data |-> <<"date", "country">>,
     country_demographics |-> <<"country">>]

\* The rows a file spells out: the columns the unique keys are made of.
\* Two such rows agree on (date, country) and differ on (date, state).
KeyedRows == [date : {1}, country : {"India"}, state : {"Kerala", "Delhi"}]

\* How far a file's or a relation's row count is from the expected one.
RowDeltas == {-1, 0}

KeyedSeqs == UNION {[1..n -> KeyedRows] : n \in 0..MaxKeyed}

\* pd.read_csv(path) of an existing file of `table`. A file of tens of
\* thousands of rows is held as `keyed`, a few rows spelled out, and `bulk`,
\* the number of its other rows, whose keys occur once in the file each.
Files(table) ==
    {[exists |-> TRUE, bulk |-> EXPECTED_ROWS[table] + d - Len(k), keyed |-> k] :
        d \in RowDeltas, k \in KeyedSeqs}

NoFile == [exists |-> FALSE, bulk |-> 0, keyed |-> <<>>]

\* len(df)
RowCount(f) == f.bulk + Len(f.keyed)

\* The row's values in the columns of the table's unique key.
KeyOf(table, row) ==
    [c \in 1..Len(UNIQUE_KEYS[table]) |-> row[UNIQUE_KEYS[table][c]]]

\* int(df.duplicated(subset=key).sum()): the rows whose key occurred in an
\* earlier row (keep='first'). A bulk row repeats no key.
Duplicated(table, f) ==
    Cardinality({p \in 1..Len(f.keyed) :
        \E q \in 1..(p - 1) : KeyOf(table, f.keyed[q]) = KeyOf(table, f.keyed[p])})

\* CheckTable with duplicate keys only warned about (line 94 left out).
CheckTableWarnsOnly(table, f, success) ==
    [success |-> IF RowCount(f) # EXPECTED_ROWS[table] THEN FALSE ELSE success,
     dupes |-> Duplicated(table, f)]

\* CheckTable with success assigned the outcome of this table's row count
\* instead of only being lowered.
CheckTableOverwrites(table, f, success) ==
    LET d == Duplicated(table, f)
    IN  [success |-> IF d # 0 THEN FALSE ELSE RowCount(f) = EXPECTED_ROWS[table],
         dupes |-> d]

\* validate_csvs, lines 80-96: the row-count check, then the key check.
CheckTable(table, f, success) ==
    LET counted == IF RowCount(f) # EXPECTED_ROWS[table] THEN FALSE ELSE success
        d == Duplicated(table, f)
    IN  [success |-> IF d # 0 THEN FALSE ELSE counted, dupes |-> d]

\* Whether a file meets the three conditions of the validator: it exists,
\* it has the expected number of rows, and no two of its rows share a key.
TablePasses(table, f) ==
    /\ f.exists
    /\ f.bulk + Len(f.keyed) = EXPECTED_ROWS[table]
    /\ \A p, q \in 1..Len(f.keyed) :
          p # q => KeyOf(table, f.keyed[p]) # KeyOf(table, f.keyed[q])

\* main, lines 132-136.
Verdict(c, d) == IF c /\ d THEN "0" ELSE "1"

\* The states of the database: every relation at its expected count, or one
\* relation off by one.
DbStates ==
    {EXPECTED_ROWS} \cup
    {[EXPECTED_ROWS EXCEPT ![t] = @ + d] : t \in TableNames, d \in RowDeltas \ {0}}

ValInit ==
    /\ vpc = "csv"
    /\ vidx = 1
    /\ check_db \in BOOLEAN
    /\ vdb \in DbStates
    /\ df = NoFile
    /\ dupes = 0
    /\ csv_ok = TRUE
    /\ db_ok = TRUE
    /\ connected = "none"
    /\ csvLog = <<>>
    /\ dbLog = <<>>
    /\ vexit = "none"

ValIdle ==
    /\ vpc = "idle"
    /\ vidx = 0
    /\ check_db = FALSE
    /\ vdb = EXPECTED_ROWS
    /\ df = NoFile
    /\ dupes = 0
    /\ csv_ok = TRUE
    /\ db_ok = TRUE
    /\ connected = "none"
    /\ csvLog = <<>>
    /\ dbLog = <<>>
    /\ vexit = "none"

InCsvLoop == vpc = "csv" /\ vidx <= Len(CSV_FILES)

\* validate_csvs, lines 73-78: the file is missing; continue.
ValidateMissing ==
    /\ InCsvLoop
    /\ csv_ok' = FALSE
    /\ df' = NoFile
    /\ csvLog' = Append(csvLog, TablePasses(CSV_FILES[vidx], NoFile))
    /\ vidx' = vidx + 1
    /\ UNCHANGED <<vpc, check_db, vdb, dupes, db_ok, connected, dbLog, vexit>>

\* validate_csvs, lines 73-96: the file is there, read and checked.
ValidateTable ==
    /\ InCsvLoop
    /\ \E f \in Files(CSV_FILES[vidx]) :
          /\ df' = f
          /\ csv_ok' = CheckTable(CSV_FILES[vidx], f, csv_ok).success
          /\ dupes' = CheckTable(CSV_FILES[vidx], f, csv_ok).dupes
          /\ csvLog' = Append(csvLog, TablePasses(CSV_FILES[vidx], f))
    /\ vidx' = vidx + 1
    /\ UNCHANGED <<vpc, check_db, vdb, db_ok, connected, dbLog, vexit>>

CsvLoopDone == vpc = "csv" /\ vidx > Len(CSV_FILES)

\* main, lines 128-136 without --check-db: db_ok stays True.
MainSkipDb ==
    /\ CsvLoopDone
    /\ ~check_db
    /\ vexit' = Verdict(csv_ok, db_ok)
    /\ vpc' = "done"
    /\ UNCHANGED <<vidx, check_db, vdb, df, dupes, csv_ok, db_ok, connected,
                   csvLog, dbLog>>

\* validate_database, lines 104-108, and main, lines 131-136: the
\* connection fails; validate_database returns False.
DbConnectFail ==
    /\ CsvLoopDone
    /\ check_db
    /\ connected' = "no"
    /\ db_ok' = FALSE
    /\ vexit' = Verdict(csv_ok, FALSE)
    /\ vpc' = "done"
    /\ UNCHANGED <<vidx, check_db, vdb, df, dupes, csv_ok, csvLog, dbLog>>

\* validate_database, lines 104-112: connected; success = True.
DbConnect ==
    /\ CsvLoopDone
    /\ check_db
    /\ connected' = "yes"
    /\ db_ok' = TRUE
    /\ vidx' = 1
    /\ vpc' = "db"
    /\ UNCHANGED <<check_db, vdb, df, dupes, csv_ok, csvLog, dbLog, vexit>>

\* validate_database, lines 113-120: count one relation.
DbCount ==
    /\ vpc = "db"
    /\ vidx <= Len(CSV_FILES)
    /\ db_ok' = IF vdb[CSV_FILES[vidx]] # EXPECTED_ROWS[CSV_FILES[vidx]]
                THEN FALSE ELSE db_ok
    /\ dbLog' = Append(dbLog, CSV_FILES[vidx])
    /\ vidx' = vidx + 1
    /\ UNCHANGED <<vpc, check_db, vdb, df, dupes, csv_ok, connected, csvLog, vexit>>

\* validate_database, lines 121-123, and main, lines 132-136.
DbDone ==
    /\ vpc = "db"
    /\ vidx > Len(CSV_FILES)
    /\ vexit' = Verdict(csv_ok, db_ok)
    /\ vpc' = "done"
    /\ UNCHANGED <<vidx, check_db, vdb, df, dupes, csv_ok, db_ok, connected,
                   csvLog, dbLog>>

(***************************************************************************)
(* generate_datasets.py                                                    *)
(* Dates are day numbers counted from 2020-01-01. Reals are fixed-point    *)
(* numbers in thousandths; int() of a non-negative real is \div.           *)
(***************************************************************************)
DEFAULT_COUNTRIES ==
    <<"India", "USA", "Brazil", "UK", "France", "Germany", "Italy", "Spain",
      "Russia", "Turkey", "South Africa", "Argentina", "Colombia", "Mexico",
      "Japan", "South Korea", "Canada", "Australia", "China", "Indonesia">>

INDIA_STATES ==
    <<"Maharashtra", "Karnataka", "Kerala", "Tamil Nadu", "Delhi",
      "Uttar Pradesh", "West Bengal", "Gujarat", "Rajasthan", "Madhya Pradesh">>

IsLeap(y) == (y % 4 = 0 /\ y % 100 # 0) \/ y % 400 = 0

DaysInYear(y) == IF IsLeap(y) THEN 366 ELSE 365

DaysInMonth(y, m) ==
    IF m = 2 THEN (IF IsLeap(y) THEN 29 ELSE 28)
    ELSE IF m \in {4, 6, 9, 11} THEN 30 ELSE 31

RECURSIVE DaysBeforeYear(_)
DaysBeforeYear(y) ==
    IF y <= 2020 THEN 0 ELSE DaysBeforeYear(y - 1) + DaysInYear(y - 1)

RECURSIVE DaysBeforeMonth(_, _)
DaysBeforeMonth(y, m) ==
    IF m <= 1 THEN 0 ELSE DaysBeforeMonth(y, m - 1) + DaysInMonth(y, m - 1)

\* datetime(y, m, d) as a day number.
DayNumber(y, m, d) == DaysBeforeYear(y) + DaysBeforeMonth(y, m) + d - 1

RECURSIVE CivilFrom(_, _, _)
CivilFrom(y, m, n) ==
    IF n >= DaysInYear(y) /\ m = 1 THEN CivilFrom(y + 1, 1, n - DaysInYear(y))
    ELSE IF n >= DaysInMonth(y, m) THEN CivilFrom(y, m + 1, n - DaysInMonth(y, m))
    ELSE <<y, m, n + 1>>

\* current_date.strftime("%Y-%m-%d"): the year, month and day of a day number.
StrfTime(n) == CivilFrom(2020, 1, n)

DEFAULT_START == DayNumber(2020, 1, 1)
DEFAULT_VACCINATION_START == DayNumber(2021, 1, 16)

Max(a, b) == IF a >= b THEN a ELSE b

\* date_range(start, end) for end >= start: pd.date_range(freq="D").
DateRange(start, end) == [k \in 1..(end - start + 1) |-> start + k - 1]

\* random.Random(seed): a deterministic stream, here a small congruential
\* generator; the state after a draw is RngNext of the state before it.
RngSeed(seed) == seed % 65537
RngNext(r) == (75 * r + 74) % 65537

\* rng.randint(a, b) drawn in state r.
RandInt(r, a, b) == a + (RngNext(r) % (b - a + 1))

\* rng.uniform(a, b) drawn in state r; a, b and the result in thousandths.
Uniform(r, a, b) == a + (RngNext(r) % (b - a + 1))

\* np.sin(i / period) in thousandths, by sin x = x: the day indexes of the
\* model stay below MaxDays, where the error is under one percent.
Sin(i, period) == (1000 * i) \div period

\* pd.DataFrame(records): the columns are those of the records; a frame
\* built from no record has no column.
DataFrame(records, columns) ==
    [columns |-> IF records = <<>> THEN <<>> ELSE columns, rows |-> records]

NotBuilt == [columns |-> <<"not built">>, rows |-> <<>>]

ZeroCovid == [cases |-> 0, deaths |-> 0, recovered |-> 0]

\* EntityStart that carries the running sums over from the previous entity.
CovidEntityStartCarries(acc) == acc

\* build_covid_cases, lines 90-92: the accumulators at the start of a country.
CovidEntityStart(acc) == ZeroCovid

\* build_covid_cases, line 108: whether a recovery share is drawn on day index i.
RecoveredDrawn(i) == i > 14

\* build_covid_cases, lines 95-103: base_cases * wave_factor * growth, as int.
CovidDailyBase(base_cases, i) ==
    LET wave_factor == 1000 + (500 * Sin(i, 90)) \div 1000 + (300 * Sin(i, 180)) \div 1000
        growth == IF i < 60 THEN 1000 + 10 * i
                  ELSE IF i < 365 THEN 1000 + 20 * i
                  ELSE IF i < 730 THEN 2000 + 25 * i
                  ELSE 1500 + 10 * i
    IN  (((base_cases * wave_factor) \div 1000) * growth) \div 1000

\* build_covid_cases, lines 94-128: one date of one country. st holds the
\* rng state, the accumulators and the records so far.
CovidRow(st, country, base_cases, i, current_date) ==
    LET r1 == RngNext(st.rng)
        r2 == RngNext(r1)
        r3 == IF RecoveredDrawn(i) THEN RngNext(r2) ELSE r2
        daily_cases == Max(0, (CovidDailyBase(base_cases, i)
                                  * Uniform(st.rng, 700, 1300)) \div 1000)
        daily_deaths == (daily_cases * Uniform(r1, 20, 30)) \div 1000
        daily_recovered == IF RecoveredDrawn(i)
                           THEN (daily_cases * Uniform(r2, 900, 950)) \div 1000
                           ELSE 0
        acc == [cases |-> st.acc.cases + daily_cases,
                deaths |-> st.acc.deaths + daily_deaths,
                recovered |-> st.acc.recovered + daily_recovered]
    IN  [rng |-> r3,
         acc |-> acc,
         records |-> Append(st.records,
            [date |-> StrfTime(current_date),
             country |-> country,
             daily_cases |-> daily_cases,
             daily_deaths |-> daily_deaths,
             daily_recovered |-> daily_recovered,
             cumulative_cases |-> acc.cases,
             cumulative_deaths |-> acc.deaths,
             cumulative_recovered |-> acc.recovered,
             active_cases |-> Max(0, acc.cases - acc.deaths - acc.recovered)])]

CovidColumns ==
    <<"date", "country", "daily_cases", "daily_deaths", "daily_recovered",
      "cumulative_cases", "cumulative_deaths", "cumulative_recovered",
      "active_cases">>

\* build_covid_cases, lines 88-92: the head of the loop over countries; the
\* base number of cases is RandInt(st.rng, 100, 1000).
CovidCountryStart(st) ==
    [rng |-> RngNext(st.rng), acc |-> CovidEntityStart(st.acc),
     records |-> st.records]

\* build_hospital_data, lines 137-157: one state on one date.
HospitalRow(st, state, i, current_date) ==
    LET wave_factor == 1000 + (500 * Sin(i, 90)) \div 1000
        r1 == RngNext(st.rng)
        r2 == RngNext(r1)
        r3 == RngNext(r2)
        r4 == RngNext(r3)
        r5 == RngNext(r4)
        r6 == RngNext(r5)
        base_admissions == RandInt(st.rng, 50, 500)
        daily_admissions ==
            Max(0, (((base_admissions * wave_factor) \div 1000)
                      * Uniform(r1, 800, 1200)) \div 1000)
        icu_admissions == (daily_admissions * Uniform(r2, 150, 250)) \div 1000
        ventilator_usage == (icu_admissions * Uniform(r3, 300, 500)) \div 1000
    IN  [rng |-> r6,
         acc |-> st.acc,
         records |-> Append(st.records,
            [date |-> StrfTime(current_date),
             state |-> state,
             country |-> "India",
             hospital_admissions |-> daily_admissions,
             icu_admissions |-> icu_admissions,
             ventilator_usage |-> ventilator_usage,
             available_beds |-> RandInt(r4, 100, 1000),
             available_icu_beds |-> RandInt(r5, 10, 100)])]

HospitalColumns ==
    <<"date", "state", "country", "hospital_admissions", "icu_admissions",
      "ventilator_usage", "available_beds", "available_icu_beds">>

ZeroVax == [dose1 |-> 0, dose2 |-> 0, booster |-> 0]

\* build_vaccination_data, lines 170-172: the accumulators at the start of
\* a country.
VaxEntityStart(acc) == ZeroVax

\* build_vaccination_data, lines 174-185: the three daily doses of day
\* index i and the rng state after drawing them.
VaxDaily(r, i) ==
    LET r1 == RngNext(r)
        r2 == RngNext(r1)
        r3 == RngNext(r2)
    IN  IF i < 90
        THEN [dose1 |-> RandInt(r, 10000, 100000),
              dose2 |-> IF i > 30 THEN RandInt(r1, 5000, 50000) ELSE 0,
              booster |-> 0,
              rng |-> IF i > 30 THEN r2 ELSE r1]
        ELSE IF i < 365
        THEN [dose1 |-> RandInt(r, 100000, 500000),
              dose2 |-> RandInt(r1, 50000, 400000),
              booster |-> IF i > 270 THEN RandInt(r2, 10000, 100000) ELSE 0,
              rng |-> IF i > 270 THEN r3 ELSE r2]
        ELSE [dose1 |-> RandInt(r, 50000, 200000),
              dose2 |-> RandInt(r1, 40000, 180000),
              booster |-> RandInt(r2, 50000, 150000),
              rng |-> r3]

\* build_vaccination_data, lines 173-205: one date of one country.
VaxRow(st, country, i, current_date) ==
    LET d == VaxDaily(st.rng, i)
        acc == [dose1 |-> st.acc.dose1 + d.dose1,
                dose2 |-> st.acc.dose2 + d.dose2,
                booster |-> st.acc.booster + d.booster]
    IN  [rng |-> d.rng,
         acc |-> acc,
         records |-> Append(st.records,
            [date |-> StrfTime(current_date),
             country |-> country,
             daily_vaccinations_dose1 |-> d.dose1,
             daily_vaccinations_dose2 |-> d.dose2,
             daily_vaccinations_booster |-> d.booster,
             cumulative_dose1 |-> acc.dose1,
             cumulative_dose2 |-> acc.dose2,
             cumulative_booster |-> acc.booster,
             total_vaccinations |-> acc.dose1 + acc.dose2 + acc.booster])]

VaxColumns ==
    <<"date", "country", "daily_vaccinations_dose1", "daily_vaccinations_dose2",
      "daily_vaccinations_booster", "cumulative_dose1", "cumulative_dose2",
      "cumulative_booster", "total_vaccinations">>

\* build_vaccination_data, lines 169-172: the head of the loop over countries.
VaxCountryStart(st) ==
    [rng |-> st.rng, acc |-> VaxEntityStart(st.acc), records |-> st.records]

\* build_vaccination_data, line 167: the first day of vax_dates.
VaxFirstDay(start) == Max(start, DEFAULT_VACCINATION_START)

ZeroTests == [tests |-> 0]

\* build_testing_data, line 331: the accumulator at the start of a country.
TestEntityStart(acc) == ZeroTests

\* build_testing_data, lines 332-347: one date of one country.
TestRow(st, country, i, current_date) ==
    LET daily_tests == IF i < 60 THEN RandInt(st.rng, 1000, 10000)
                       ELSE IF i < 180 THEN RandInt(st.rng, 10000, 100000)
                       ELSE RandInt(st.rng, 100000, 1000000)
        acc == [tests |-> st.acc.tests + daily_tests]
    IN  [rng |-> RngNext(st.rng),
         acc |-> acc,
         records |-> Append(st.records,
            [date |-> StrfTime(current_date),
             country |-> country,
             daily_tests |-> daily_tests,
             cumulative_tests |-> acc.tests])]

TestColumns == <<"date", "country", "daily_tests", "cumulative_tests">>

\* build_testing_data, lines 330-331: the head of the loop over countries.
TestCountryStart(st) ==
    [rng |-> st.rng, acc |-> TestEntityStart(st.acc), records |-> st.records]

\* build_demographics, lines 210-322: the attribute lists; median_age and
\* hospital_beds_per_1000 in tenths.
DemographicsLists ==
    [population |->
        <<1393409038, 331893745, 214326223, 68207114, 67391582, 83900471,
          60367477, 47351567, 145912025, 85042738, 60041994, 45605826,
          51265844, 130262216, 125836021, 51780579, 38155012, 25788215,
          1444216107, 276361783>>,
     median_age |->
        <<284, 383, 335, 405, 417, 478, 479, 455, 396, 322, 276, 319, 312,
          293, 486, 437, 418, 375, 384, 302>>,
     gdp_per_capita |->
        <<6700, 63051, 14103, 42330, 44995, 50795, 42776, 38286, 27394, 27956,
          12032, 19922, 13579, 17336, 42248, 43143, 48720, 59934, 16117, 11812>>,
     population_density |->
        <<464, 36, 25, 275, 119, 240, 206, 94, 9, 109, 49, 17, 46, 66, 347,
          527, 4, 3, 153, 151>>,
     hospital_beds_per_1000 |->
        <<5, 29, 21, 25, 59, 80, 32, 29, 71, 29, 23, 50, 17, 10, 130, 124,
          25, 38, 43, 10>>]

DemographicsColumns ==
    <<"country", "population", "median_age", "gdp_per_capita",
      "population_density", "hospital_beds_per_1000">>

\* pd.DataFrame(data) of a dict of lists raises ValueError unless all the
\* lists have the same length.
SameLengths(countries) ==
    \A c \in DOMAIN DemographicsLists : Len(DemographicsLists[c]) = Len(countries)

\* build_demographics, line 323: a dict of lists keeps its columns even
\* when the lists are empty.
BuildDemographics(countries) ==
    [columns |-> DemographicsColumns,
     rows |-> [k \in 1..Len(countries) |->
        [country |-> countries[k],
         population |-> DemographicsLists.population[k],
         median_age |-> DemographicsLists.median_age[k],
         gdp_per_capita |-> DemographicsLists.gdp_per_capita[k],
         population_density |-> DemographicsLists.population_density[k],
         hospital_beds_per_1000 |-> DemographicsLists.hospital_beds_per_1000[k]]]]

\* The inputs of generate_bundle the model runs.
GenStarts ==
    {DEFAULT_START, DEFAULT_VACCINATION_START - 2, DEFAULT_VACCINATION_START}
GenLengths == {0, 1, 3, MaxDays}
CountryLists == {<<>>, <<"India">>, DEFAULT_COUNTRIES}
StateLists == {<<"Kerala">>, INDIA_STATES}
Seeds == {42, 7}

NoBundle ==
    [covid_cases |-> NotBuilt, hospital_data |-> NotBuilt,
     vaccination_data |-> NotBuilt, country_demographics |-> NotBuilt,
     testing_data |-> NotBuilt]

\* A generator that keeps drawing from the state it finds, whatever the seed.
RandomContextGlobal(found, seed) == found

\* generate_bundle, line 358: random.Random(rng_seed), a generator of its
\* own whose state is that of the seed, whatever state was found before.
RandomContext(found, seed) == RngSeed(seed)

NoFirst == [bundle |-> NoBundle, rng |-> 0]

\* generate_bundle, line 358: the arguments and the seeded generator.
GenInit ==
    /\ gpc = "start"
    /\ \E s \in GenStarts, n \in GenLengths :
          cfg \in [start : {s}, end : {s + n - 1}, countries : CountryLists,
                   states : StateLists, seed : Seeds]
    /\ rng = RandomContext(0, cfg.seed)
    /\ dates = <<>>
    /\ vax_dates = <<>>
    /\ gidx = 0
    /\ gjdx = 0
    /\ gbase = 0
    /\ gacc = ZeroCovid
    /\ grecords = <<>>
    /\ bundle = NoBundle
    /\ grun = 1
    /\ first_run = NoFirst

GenIdle ==
    /\ gpc = "idle"
    /\ cfg = [start |-> 0, end |-> 0, countries |-> <<>>, states |-> <<>>,
              seed |-> 0]
    /\ rng = 0
    /\ dates = <<>>
    /\ vax_dates = <<>>
    /\ gidx = 0
    /\ gjdx = 0
    /\ gbase = 0
    /\ gacc = ZeroCovid
    /\ grecords = <<>>
    /\ bundle = NoBundle
    /\ grun = 0
    /\ first_run = NoFirst

\* The builder's local state, and its assignment back.
Local == [rng |-> rng, acc |-> gacc, records |-> grecords]

SetLocal(st) ==
    /\ rng' = st.rng
    /\ gacc' = st.acc
    /\ grecords' = st.records

\* The next builder starts with no record.
Enter(next, zero) ==
    /\ gpc' = next
    /\ gidx' = 1
    /\ gjdx' = 1
    /\ gacc' = zero
    /\ grecords' = <<>>

\* One pass of an inner loop over n items done: on to the next item, or to
\* the next pass of the outer loop. The inner sequences of the model are
\* never empty.
Advance(n) ==
    IF gjdx >= n THEN gidx' = gidx + 1 /\ gjdx' = 1
    ELSE gjdx' = gjdx + 1 /\ UNCHANGED gidx

\* date_range, lines 79-80, called at line 361: ValueError.
GenDateRangeError ==
    /\ gpc = "start"
    /\ cfg.end < cfg.start
    /\ gpc' = "error"
    /\ UNCHANGED <<cfg, rng, dates, vax_dates, gidx, gjdx, gbase, gacc,
                   grecords, bundle>>

\* generate_bundle, line 361.
GenDateRange ==
    /\ gpc = "start"
    /\ ~(cfg.end < cfg.start)
    /\ dates' = DateRange(cfg.start, cfg.end)
    /\ Enter("covid", ZeroCovid)
    /\ UNCHANGED <<cfg, rng, vax_dates, gbase, bundle>>

\* build_covid_cases, lines 88-128: one date of one country, after the head
\* of the loop over countries when the date is the country's first.
GenCovidRow ==
    /\ gpc = "covid"
    /\ gidx <= Len(cfg.countries)
    /\ LET first == gjdx = 1
           drawn == IF first THEN RandInt(rng, 100, 1000) ELSE gbase
           st == IF first THEN CovidCountryStart(Local) ELSE Local
       IN  /\ gbase' = drawn
           /\ SetLocal(CovidRow(st, cfg.countries[gidx], drawn, gjdx - 1,
                                dates[gjdx]))
    /\ Advance(Len(dates))
    /\ UNCHANGED <<gpc, cfg, dates, vax_dates, bundle>>

\* build_covid_cases, line 129, and generate_bundle, line 362.
GenCovidDone ==
    /\ gpc = "covid"
    /\ gidx > Len(cfg.countries)
    /\ bundle' = [bundle EXCEPT !.covid_cases = DataFrame(grecords, CovidColumns)]
    /\ Enter("hospital", ZeroCovid)
    /\ UNCHANGED <<cfg, rng, dates, vax_dates, gbase>>

\* build_hospital_data, lines 136-157: one state on one date.
GenHospitalRow ==
    /\ gpc = "hospital"
    /\ gidx <= Len(dates)
    /\ SetLocal(HospitalRow(Local, cfg.states[gjdx], gidx - 1, dates[gidx]))
    /\ Advance(Len(cfg.states))
    /\ UNCHANGED <<gpc, cfg, dates, vax_dates, gbase, bundle>>

\* build_hospital_data, line 158, and generate_bundle, line 363.
GenHospitalDone ==
    /\ gpc = "hospital"
    /\ gidx > Len(dates)
    /\ bundle' = [bundle EXCEPT !.hospital_data = DataFrame(grecords, HospitalColumns)]
    /\ Enter("vaccination_start", ZeroVax)
    /\ UNCHANGED <<cfg, rng, dates, vax_dates, gbase>>

\* build_vaccination_data, line 167: date_range raises ValueError when
\* end_date lies before the first vaccination day.
GenVaccinationStartError ==
    /\ gpc = "vaccination_start"
    /\ cfg.end < VaxFirstDay(cfg.start)
    /\ gpc' = "error"
    /\ UNCHANGED <<cfg, rng, dates, vax_dates, gidx, gjdx, gbase, gacc,
                   grecords, bundle>>

\* build_vaccination_data, lines 167-168.
GenVaccinationStart ==
    /\ gpc = "vaccination_start"
    /\ ~(cfg.end < VaxFirstDay(cfg.start))
    /\ vax_dates' = DateRange(VaxFirstDay(cfg.start), cfg.end)
    /\ Enter("vaccination", ZeroVax)
    /\ UNCHANGED <<cfg, rng, dates, gbase, bundle>>

\* build_vaccination_data, lines 169-205: one date of one country, after
\* the head of the loop over countries when the date is the country's first.
GenVaccinationRow ==
    /\ gpc = "vaccination"
    /\ gidx <= Len(cfg.countries)
    /\ LET st == IF gjdx = 1 THEN VaxCountryStart(Local) ELSE Local
       IN  SetLocal(VaxRow(st, cfg.countries[gidx], gjdx - 1, vax_dates[gjdx]))
    /\ Advance(Len(vax_dates))
    /\ UNCHANGED <<gpc, cfg, dates, vax_dates, gbase, bundle>>

\* build_vaccination_data, line 206, and generate_bundle, line 364.
GenVaccinationDone ==
    /\ gpc = "vaccination"
    /\ gidx > Len(cfg.countries)
    /\ bundle' = [bundle EXCEPT !.vaccination_data = DataFrame(grecords, VaxColumns)]
    /\ Enter("demographics", ZeroTests)
    /\ UNCHANGED <<cfg, rng, dates, vax_dates, gbase>>

\* build_demographics, line 323: the lists differ in length, ValueError.
GenDemographicsError ==
    /\ gpc = "demographics"
    /\ ~SameLengths(cfg.countries)
    /\ gpc' = "error"
    /\ UNCHANGED <<cfg, rng, dates, vax_dates, gidx, gjdx, gbase, gacc,
                   grecords, bundle>>

\* build_demographics, and generate_bundle, line 365.
GenDemographics ==
    /\ gpc = "demographics"
    /\ SameLengths(cfg.countries)
    /\ bundle' = [bundle EXCEPT
                    !.country_demographics = BuildDemographics(cfg.countries)]
    /\ Enter("testing", ZeroTests)
    /\ UNCHANGED <<cfg, rng, dates, vax_dates, gbase>>

\* build_testing_data, lines 330-347: one date of one country, after the
\* head of the loop over countries when the date is the country's first.
GenTestingRow ==
    /\ gpc = "testing"
    /\ gidx <= Len(cfg.countries)
    /\ LET st == IF gjdx = 1 THEN TestCountryStart(Local) ELSE Local
       IN  SetLocal(TestRow(st, cfg.countries[gidx], gjdx - 1, dates[gjdx]))
    /\ Advance(Len(dates))
    /\ UNCHANGED <<gpc, cfg, dates, vax_dates, gbase, bundle>>

\* build_testing_data, line 348, and generate_bundle, lines 366-374.
GenTestingDone ==
    /\ gpc = "testing"
    /\ gidx > Len(cfg.countries)
    /\ bundle' = [bundle EXCEPT !.testing_data = DataFrame(grecords, TestColumns)]
    /\ gpc' = "done"
    /\ UNCHANGED <<cfg, rng, dates, vax_dates, gidx, gjdx, gbase, gacc,
                   grecords>>

\* main, lines 421-430, run once more with the same arguments: a new call
\* of generate_bundle, which finds the generator as the last call left it.
GenAgain ==
    /\ gpc = "done"
    /\ grun < MaxGenRuns
    /\ first_run' = IF grun = 1 THEN [bundle |-> bundle, rng |-> rng]
                   ELSE first_run
    /\ grun' = grun + 1
    /\ gpc' = "start"
    /\ rng' = RandomContext(rng, cfg.seed)
    /\ dates' = <<>>
    /\ vax_dates' = <<>>
    /\ gidx' = 0
    /\ gjdx' = 0
    /\ gbase' = 0
    /\ gacc' = ZeroCovid
    /\ grecords' = <<>>
    /\ bundle' = NoBundle
    /\ UNCHANGED cfg

\* A step of one call of generate_bundle leaves the other two machines and
\* the record of the first call alone.
GenOnly == UNCHANGED <<impVars, valVars, grun, first_run>>

\* A new call leaves the other two machines alone.
RunOnly == UNCHANGED <<impVars, valVars>>

GenerateNext ==
    \/ GenDateRangeError /\ GenOnly
    \/ GenDateRange /\ GenOnly
    \/ GenCovidRow /\ GenOnly
    \/ GenCovidDone /\ GenOnly
    \/ GenHospitalRow /\ GenOnly
    \/ GenHospitalDone /\ GenOnly
    \/ GenVaccinationStartError /\ GenOnly
    \/ GenVaccinationStart /\ GenOnly
    \/ GenVaccinationRow /\ GenOnly
    \/ GenVaccinationDone /\ GenOnly
    \/ GenDemographicsError /\ GenOnly
    \/ GenDemographics /\ GenOnly
    \/ GenTestingRow /\ GenOnly
    \/ GenTestingDone /\ GenOnly

InitGenerate == ImpIdle /\ ValIdle /\ GenInit

SpecGen == InitGenerate /\ [][GenerateNext]_vars

\* generate_bundle called again with the same arguments after it returned.
GenerateTwiceNext ==
    \/ GenerateNext
    \/ GenAgain /\ RunOnly

SpecGenTwice == InitGenerate /\ [][GenerateTwiceNext]_vars

\* A step of the importer leaves the other two machines alone.
ImpOnly == UNCHANGED <<valVars, genVars>>

ImportNext ==
    \/ MainMissingFiles /\ ImpOnly
    \/ MainConnect /\ ImpOnly
    \/ MainConnectFail /\ ImpOnly
    \/ ImportFileNotFound /\ ImpOnly
    \/ ImportOpen /\ ImpOnly
    \/ ImportOpenError /\ ImpOnly
    \/ ExecuteMany /\ ImpOnly
    \/ ExecuteManyError /\ ImpOnly
    \/ CommitBatch /\ ImpOnly
    \/ ImportReturnTrue /\ ImpOnly
    \/ MainFinish /\ ImpOnly
    \/ Interrupt /\ ImpOnly
    \/ RemoveFile /\ ImpOnly

\* A step of the validator leaves the other two machines alone.
ValOnly == UNCHANGED <<impVars, genVars>>

ValidateNext ==
    \/ ValidateMissing /\ ValOnly
    \/ ValidateTable /\ ValOnly
    \/ MainSkipDb /\ ValOnly
    \/ DbConnectFail /\ ValOnly
    \/ DbConnect /\ ValOnly
    \/ DbCount /\ ValOnly
    \/ DbDone /\ ValOnly

InitValidate == ImpIdle /\ ValInit /\ GenIdle

SpecValidate == InitValidate /\ [][ValidateNext]_vars

InitImport == ImpInit /\ ValIdle /\ GenIdle

SpecImport == InitImport /\ [][ImportNext]_vars

(***************************************************************************)
(* Properties of the importer                                              *)
(***************************************************************************)
\* The numbers of leading file rows that make up whole batches of size b.
WholeBatches(n, b) ==
    IF b <= 0 THEN {0} ELSE {k \in 0..n : k % b = 0 \/ k = n}

AllTrue(rs) == \A k \in 1..Len(rs) : rs[k]

C2_NonPositiveBatchTouchesNothing ==
    (last.done /\ args.batch_size <= 0) =>
        (db[last.table] = last.before /\ ~last.ret)

\* C3: after every successful import in reset mode, the first and the
\* second alike, the relation holds exactly the rows of the file.
C3_ResetImportLeavesFile ==
    (last.done /\ last.ret /\ args.reset) =>
        db[last.table] = ReadCsv(nrows)

\* C3 witness: a second successful reset import of a non-empty file into the
\* relation that held the file's rows from the first.
C3_SecondResetImport ==
    /\ last.done /\ last.ret /\ args.reset
    /\ nrows > 0
    /\ okImports[last.table] = 2
    /\ last.before = ReadCsv(nrows)
    /\ db[last.table] = ReadCsv(nrows)

\* C4: a successful import in append mode keeps every row the relation
\* held, in place, and adds the n rows of the file after them (m + n rows).
C4_AppendKeepsAndAdds ==
    (last.done /\ last.ret /\ ~args.reset) =>
        /\ db[last.table] = last.before \o ReadCsv(nrows)
        /\ Len(db[last.table]) = Len(last.before) + nrows

\* C4 witness: the same non-empty file appended twice to an empty relation
\* leaves 2 * n rows.
C4_AppendedTwice ==
    /\ last.done /\ last.ret /\ ~args.reset
    /\ nrows > 0
    /\ okImports[last.table] = 2
    /\ last.before = ReadCsv(nrows)
    /\ db[last.table] = ReadCsv(nrows) \o ReadCsv(nrows)
    /\ Len(db[last.table]) = 2 * nrows

\* C5: a run over several tables that met a missing file (and was neither
\* killed nor unable to connect) still attempted every selected table.
C5_EveryTableAttempted ==
    (/\ pc = "exited"
     /\ runs > 0
     /\ Len(SelectedTables(args)) > 1
     /\ exit # "killed"
     /\ report # "connect_error") =>
        Len(results) = Len(SelectedTables(args))

\* C6: a run that reached its final report reports full success, and exits
\* with status 0, exactly when every selected table's import returned True.
C6_OutcomeIsConjunction ==
    (pc = "exited" /\ report \in {"all_ok", "some_failed"}) =>
        /\ (report = "all_ok") <=> AllTrue(results)
        /\ (exit = "0") <=> AllTrue(results)

(***************************************************************************)
(* Properties of the validator                                             *)
(***************************************************************************)
EveryFilePasses == \A k \in 1..Len(csvLog) : csvLog[k]

EveryRelationAtExpected == \A t \in TableNames : vdb[t] = EXPECTED_ROWS[t]

\* The table of the file read last.
LastRead == CSV_FILES[Len(csvLog)]

\* C7 as stated: every table is evaluated, and the result is pass exactly
\* when every file passed its three checks and, with --check-db, every
\* relation's row count equals its expected count.
C7_PassIffAllChecksPass ==
    vexit # "none" =>
        /\ Len(csvLog) = Len(CSV_FILES)
        /\ (vexit = "0") <=>
               (EveryFilePasses /\ (check_db => EveryRelationAtExpected))

\* C7 as amended: the same, where the database-level pass also needs the
\* connection to the database to have been made; then every relation is
\* counted, whatever the earlier counts were.
C7_PassIffAllChecksPassAndConnected ==
    vexit # "none" =>
        /\ Len(csvLog) = Len(CSV_FILES)
        /\ connected = "yes" => dbLog = CSV_FILES
        /\ (vexit = "0") <=>
               (EveryFilePasses /\
                (check_db => (connected = "yes" /\ EveryRelationAtExpected)))

\* C7 witness: a run that went on after two failing tables, passed the
\* third, counted every relation, and failed.
C7_WentOnAfterFailures ==
    /\ vexit = "1"
    /\ Len(csvLog) = Len(CSV_FILES)
    /\ ~csvLog[1] /\ ~csvLog[2] /\ csvLog[3]
    /\ check_db /\ connected = "yes" /\ dbLog = CSV_FILES

\* C8: when some key value occurs in more than one row of the file read
\* last, the run fails, whether or not the row count is the expected one,
\* and the reported count is the number of rows beyond the first of each key.
C8_DuplicateKeysFail ==
    (df.exists /\ ~(\A p, q \in 1..Len(df.keyed) :
            p # q => KeyOf(LastRead, df.keyed[p]) # KeyOf(LastRead, df.keyed[q]))) =>
        /\ ~csv_ok
        /\ vexit # "0"
        /\ dupes = Len(df.keyed) -
               Cardinality({KeyOf(LastRead, df.keyed[p]) : p \in 1..Len(df.keyed)})

\* C8 witness: a covid_cases file with the expected number of rows, two of
\* them duplicates of a third on (date, country), reported with 2 duplicates.
C8_TwoDuplicateRows ==
    /\ df.exists
    /\ LastRead = "covid_cases"
    /\ RowCount(df) = EXPECTED_ROWS["covid_cases"]
    /\ Len(df.keyed) = 3
    /\ dupes = 2
    /\ ~csv_ok

(***************************************************************************)
(* Properties of the generators, checked under SpecGen.                    *)
(***************************************************************************)
DayOf(date) == DayNumber(date[1], date[2], date[3])

\* The rows of one entity are one run of consecutive dates.
OneRunPerEntity(rows) ==
    \A r \in 2..Len(rows) :
        IF rows[r].country = rows[r - 1].country
        THEN DayOf(rows[r].date) = DayOf(rows[r - 1].date) + 1
        ELSE \A q \in 1..(r - 1) : rows[q].country # rows[r].country

\* The cumulative column before row r: that of the entity's previous date,
\* and 0 before the entity's first date.
Before(rows, r, cumulative) ==
    IF r > 1 /\ rows[r - 1].country = rows[r].country
    THEN rows[r - 1][cumulative] ELSE 0

RunningSum(rows, daily, cumulative) ==
    \A r \in 1..Len(rows) :
        /\ rows[r][daily] >= 0
        /\ rows[r][cumulative] = Before(rows, r, cumulative) + rows[r][daily]
        /\ rows[r][cumulative] >= Before(rows, r, cumulative)

\* Some entity starts again from 0 right after a row whose sum is positive,
\* and some row adds a positive daily value to a positive sum.
ResetsAndCarries(rows, daily, cumulative) ==
    /\ \E r \in 2..Len(rows) :
          /\ rows[r].country # rows[r - 1].country
          /\ rows[r - 1][cumulative] > 0
          /\ rows[r][cumulative] = rows[r][daily]
    /\ \E r \in 2..Len(rows) :
          /\ rows[r].country = rows[r - 1].country
          /\ rows[r - 1][cumulative] > 0
          /\ rows[r][daily] > 0

\* C9: in covid_cases, vaccination_data and testing_data every cumulative
\* column is the running sum of its daily column along the dates of each
\* entity, starting from 0 at each entity; the daily values are never
\* negative and no cumulative value decreases.
C9_CumulativeIsRunningSum ==
    /\ OneRunPerEntity(bundle.covid_cases.rows)
    /\ RunningSum(bundle.covid_cases.rows, "daily_cases", "cumulative_cases")
    /\ RunningSum(bundle.covid_cases.rows, "daily_deaths", "cumulative_deaths")
    /\ RunningSum(bundle.covid_cases.rows, "daily_recovered", "cumulative_recovered")
    /\ OneRunPerEntity(bundle.vaccination_data.rows)
    /\ RunningSum(bundle.vaccination_data.rows,
                  "daily_vaccinations_dose1", "cumulative_dose1")
    /\ RunningSum(bundle.vaccination_data.rows,
                  "daily_vaccinations_dose2", "cumulative_dose2")
    /\ RunningSum(bundle.vaccination_data.rows,
                  "daily_vaccinations_booster", "cumulative_booster")
    /\ OneRunPerEntity(bundle.testing_data.rows)
    /\ RunningSum(bundle.testing_data.rows, "daily_tests", "cumulative_tests")

\* C9 witness: a finished bundle of several countries and several dates in
\* which each of the three tables has a country that starts again from 0
\* after a country with a positive sum.
C9_SeveralEntitiesSeveralDates ==
    /\ gpc = "done"
    /\ Len(cfg.countries) > 1 /\ Len(dates) > 1 /\ Len(vax_dates) > 1
    /\ ResetsAndCarries(bundle.covid_cases.rows, "daily_cases", "cumulative_cases")
    /\ ResetsAndCarries(bundle.vaccination_data.rows,
                        "daily_vaccinations_dose1", "cumulative_dose1")
    /\ ResetsAndCarries(bundle.testing_data.rows, "daily_tests", "cumulative_tests")

\* The dates of vaccination_data claimed by C10: from the later of start and
\* the vaccination start to end, none when end comes first.
ClaimedVaxDays == Max(0, cfg.end - Max(cfg.start, DEFAULT_VACCINATION_START) + 1)

\* C10: with end >= start, generate_bundle completes, covid_cases and
\* testing_data have one row per date and country, hospital_data one per
\* date and state, and vaccination_data one per country and vaccination date.
C10_CompletesWithOneRowPerPair ==
    cfg.end >= cfg.start =>
        /\ gpc # "error"
        /\ gpc = "done" =>
            /\ Len(bundle.covid_cases.rows) = Len(dates) * Len(cfg.countries)
            /\ Len(bundle.testing_data.rows) = Len(dates) * Len(cfg.countries)
            /\ Len(bundle.hospital_data.rows) = Len(dates) * Len(cfg.states)
            /\ Len(bundle.vaccination_data.rows) =
                   ClaimedVaxDays * Len(cfg.countries)

\* The tables that draw from the random stream, in the order built.
RandomTables == <<"covid_cases", "hospital_data", "vaccination_data", "testing_data">>

Built(t) == bundle[t] # NotBuilt

TableColumns ==
    [covid_cases |-> CovidColumns, hospital_data |-> HospitalColumns,
     vaccination_data |-> VaxColumns,
     country_demographics |-> DemographicsColumns,
     testing_data |-> TestColumns]

\* The entities of the tables built over dates.
Entities ==
    [covid_cases |-> cfg.countries, hospital_data |-> cfg.states,
     testing_data |-> cfg.countries]

Range(seq) == {seq[k] : k \in 1..Len(seq)}

\* C12: every table built carries its fixed columns, with or without rows,
\* every row has exactly those columns, and over a range of a single day
\* the tables built over dates hold exactly one record per entity.
C12_RectangularWithFixedColumns ==
    \A t \in DOMAIN bundle :
        Built(t) =>
            /\ bundle[t].columns = TableColumns[t]
            /\ \A r \in 1..Len(bundle[t].rows) :
                  DOMAIN bundle[t].rows[r] = Range(TableColumns[t])
            /\ (Len(dates) = 1 /\ t \in DOMAIN Entities) =>
                  /\ Len(bundle[t].rows) = Len(Entities[t])
                  /\ \A k \in 1..Len(Entities[t]) :
                        bundle[t].rows[k][IF t = "hospital_data" THEN "state"
                                          ELSE "country"] = Entities[t][k]

\* The day index of a row: its position on the date axis, from 0.
DayIndex(row) == DayOf(row.date) - cfg.start

\* The integer part of a share of between 90 and 95 percent of daily_cases.
RecoveredShare(row) ==
    /\ row.daily_recovered >= (900 * row.daily_cases) \div 1000
    /\ row.daily_recovered <= (950 * row.daily_cases) \div 1000

\* C13: in every row of covid_cases, daily_recovered is 0 at the day indexes
\* below 14 and the integer part of a 90-95% share of the row's daily_cases
\* from day index 14 on.
C13_RecoveredAfterLagOf14 ==
    \A r \in 1..Len(bundle.covid_cases.rows) :
        LET row == bundle.covid_cases.rows[r]
        IN  IF DayIndex(row) < 14 THEN row.daily_recovered = 0
            ELSE RecoveredShare(row)

====
